---- MODULE Spec2Model ----
(* deno-mmap: the loader (binary resolution, SHA-256 verification, symbol-set *)
(* fallback) and the memoized getLib() every handle operation awaits.         *)
EXTENDS Integers, Sequences, FiniteSets, TLC

(* ------------------------------------------------------------------ bounds *)
\* Callers (handle operations) started in one process.
NumCallers == 2
\* Longest file content / downloaded body, in bytes.
MaxBlobLen == 2
\* Changes the environment makes to the override, dev paths and cache in a run.
MaxEnvChanges == 1
\* Handle operations one caller runs one after the other.
MaxOps == 2

\* undefined / null, for string values, for hex strings and for file contents
None == "<undefined>"
NoEntry == <<"undefined">>
NoFile == <<-1>>

Callers == 1 .. NumCallers
Bytes == {0, 1}
Blobs == UNION {[1 .. n -> Bytes] : n \in 0 .. MaxBlobLen}

(* ---------------------------------------------------------------- platform *)
\* Values Deno.build.os / Deno.build.arch can take; the last of each is one the
\* library does not support.
BuildOs == {"windows", "linux", "darwin", "freebsd"}
BuildArch == {"x86_64", "aarch64", "riscv64"}

VARIABLES os, arch

\* currentPlatform(): the error it throws, or None when it returns {os, arch}.
currentPlatformError ==
  IF os \notin {"windows", "linux", "darwin"} THEN "Unsupported OS"
  ELSE IF arch \notin {"x86_64", "aarch64"} THEN "Unsupported arch"
  ELSE None

\* Variant of osTagOf: the OS name is used as the tag.
osTagOfBuildName(o) == o

osTagOf(o) == IF o = "darwin" THEN "macos" ELSE o

extOf(o) == IF o = "windows" THEN "dll" ELSE IF o = "linux" THEN "so" ELSE "dylib"

\* assetName(crateName), for a platform currentPlatform() accepts.
assetNameOf(crateName, o, a) ==
  crateName \o "-" \o osTagOf(o) \o "-" \o a \o "." \o extOf(o)

assetName(crateName) == assetNameOf(crateName, os, arch)

(* ------------------------------------------------------------- environment *)
VERSION == "VERSION"
\* Environment variables cacheDir() reads; LOCALAPPDATA and XDG_CACHE_HOME unset.
EnvHome == "HOME"
EnvLocalAppData == None
EnvXdgCacheHome == None

\* a ?? b
Coalesce(a, b) == IF a = None THEN b ELSE a

cacheDir ==
  IF os = "windows" THEN Coalesce(EnvLocalAppData, EnvHome) \o "\\mmap\\cache\\" \o VERSION
  ELSE IF os = "darwin" THEN EnvHome \o "/Library/Caches/mmap/" \o VERSION
  ELSE Coalesce(EnvXdgCacheHome, EnvHome \o "/.cache") \o "/mmap/" \o VERSION

VARIABLES
  envOverride,   \* Deno.env.get("MMAP_LIB_PATH"): None, "" or a path
  flatDev,       \* what ./dist/<asset> is: "absent", "file" or "dir"
  legacyDev,     \* what ./dist/<osTag>-<arch>/<asset> is
  cacheFile,     \* content of <cacheDir>/<asset>, or NoFile when absent
  checksums      \* checksums.json: asset file name -> hex digest string

OverridePath == "/opt/lib/mmap_ffi.bin"
StatKinds == {"absent", "file", "dir"}

(* ------------------------------------------------------------------ digest *)
\* Content index of a byte buffer: injective on buffers (bijective base 3).
RECURSIVE BlobIndex(_)
BlobIndex(b) ==
  IF Len(b) = 0 THEN 0 ELSE (b[1] + 1) + 3 * BlobIndex(Tail(b))

\* crypto.subtle.digest("SHA-256", bytes), shortened to one digest byte that
\* depends on every byte of the buffer and is collision free on Blobs.
digest(bytes) == <<(37 * BlobIndex(bytes) + 10) % 256>>

\* Hex strings are sequences of one-character strings; "" is << >>.
HexDigits == <<"0", "1", "2", "3", "4", "5", "6", "7", "8", "9", "a", "b", "c", "d", "e", "f">>
UpperDigits == <<"0", "1", "2", "3", "4", "5", "6", "7", "8", "9", "A", "B", "C", "D", "E", "F">>

\* b.toString(16).padStart(2, "0")
byteHex(b) == <<HexDigits[(b \div 16) + 1], HexDigits[(b % 16) + 1]>>

RECURSIVE joinHex(_)
joinHex(u) == IF Len(u) = 0 THEN << >> ELSE byteHex(u[1]) \o joinHex(Tail(u))

sha256Hex(bytes) == joinHex(digest(bytes))

lowerChar(c) ==
  IF \E i \in 1 .. 16 : UpperDigits[i] = c
  THEN HexDigits[CHOOSE i \in 1 .. 16 : UpperDigits[i] = c]
  ELSE c

upperChar(c) ==
  IF \E i \in 1 .. 16 : HexDigits[i] = c
  THEN UpperDigits[CHOOSE i \in 1 .. 16 : HexDigits[i] = c]
  ELSE c

\* String.prototype.toLowerCase / toUpperCase
toLowerCase(s) == [i \in 1 .. Len(s) |-> lowerChar(s[i])]
toUpperCase(s) == [i \in 1 .. Len(s) |-> upperChar(s[i])]

\* Variant of digestMatches: the comparison without the toLowerCase() calls.
digestMatchesCaseSensitive(got, want) == got = want

\* got.toLowerCase() !== want.toLowerCase(), negated
digestMatches(got, want) == toLowerCase(got) = toLowerCase(want)

(* ---------------------------------------------------------------- manifest *)
\* The bytes of the release asset the manifest was generated from.
ReleaseBlob == <<1, 0>>

SupportedAssets ==
  {assetNameOf("mmap_ffi", o, a) : o \in {"windows", "linux", "darwin"}, a \in {"x86_64", "aarch64"}}
\* The three assets the README lists as published.
PublishedAssets ==
  {assetNameOf("mmap_ffi", "windows", "x86_64"), assetNameOf("mmap_ffi", "linux", "x86_64"),
   assetNameOf("mmap_ffi", "darwin", "aarch64")}

\* checksums.json as bundled: empty, lower-case digests, upper-case digests,
\* empty strings, or entries for the published assets only.
Manifests ==
  { [n \in {} |-> << >>],
    [n \in SupportedAssets |-> sha256Hex(ReleaseBlob)],
    [n \in SupportedAssets |-> toUpperCase(sha256Hex(ReleaseBlob))],
    [n \in SupportedAssets |-> << >>],
    [n \in PublishedAssets |-> sha256Hex(ReleaseBlob)] }

\* (checksums as Record<string, string>)[asset]
lookup(asset) == IF asset \in DOMAIN checksums THEN checksums[asset] ELSE NoEntry

\* !want, negated: undefined and "" are falsy
truthy(want) == want # NoEntry /\ want # << >>

(* ------------------------------------------------------------ loader state *)
Ops == {"open", "openWrite", "openWriteWithSize", "read", "write", "flush", "close"}
ExportKinds == {"full", "legacy", "none"}
NoLib == [path |-> None, symbols |-> None]

VARIABLES
  libP,        \* ffi_api.ts libP: "null" or "promise"
  lpc,         \* where loadLibrary() stands
  libPath,     \* loadLibrary's libPath
  cached,      \* bytes read from the cache file
  bin,         \* bytes downloadAsset returned
  exports,     \* what the first dlopen found the binary to export
  lib,         \* the library loadLibrary returned
  err,         \* the error loadLibrary threw
  cpc,         \* per caller: "off" (never calls), "idle", "await", "gotLib", "threw"
  cop,         \* per caller: the handle operation it calls
  cres,        \* per caller: what await getLib() produced
  cfound,      \* per caller: what getLib() found libP to be: "null", "pending", "settled"
  cacheBefore, \* content of the cache file when the process started
  loads,       \* calls of loadLibrary
  stats,       \* Deno.statSync calls
  cacheReads,  \* Deno.readFile calls on the cache path
  lookups,     \* reads of checksums[asset]
  cmps,        \* digest comparisons made, in order
  fetches,     \* fetch() calls made, in order: how each ended
  cacheWrites, \* Deno.writeFile calls on the cache path
  binds        \* Deno.dlopen calls, in order

VARIABLES
  envChanges,  \* changes made so far to the override, the dev paths and the cache file
  files,       \* user files: path -> content, or NoFile
  regions,     \* native mappings made so far; a region reference is an index, 0 is null
  carg,        \* per caller: the arguments of the operation it called
  cret,        \* per caller: what the operation returned or threw
  calls,       \* native and file-system calls the running operation has made, in order
  nops,        \* handle operations called so far
  handles,     \* handles the operations have returned to the program
  filesAt,     \* the user files as they were when the running operation was called
  script,      \* the operations a scripted program runs, in order
  written,     \* the last native write: handle, bytes, offset, count returned
  ub           \* whether a native call went outside a live mapping

VARIABLES
  gdir,        \* checksum generator: base names of the files under its input directory
  gpc,         \* checksum generator: where it is ("off" when it is not run)
  gseen,       \* checksum generator: files the walk has visited
  gmap,        \* checksum generator: the map, as its entries in insertion order
  gjson        \* checksum generator: the entries written out, in order

platformVars == <<os, arch>>
genVars == <<gdir, gpc, gseen, gmap, gjson>>
opVars ==
  <<envChanges, files, regions, carg, cret, calls, nops, handles, filesAt, script, written, ub>>
envVars == <<envOverride, flatDev, legacyDev, checksums>>
loaderVars == <<libP, lpc, libPath, cached, bin, exports, lib, err>>
callerVars == <<cpc, cop, cres, cfound>>
historyVars == <<cacheBefore, loads, stats, cacheReads, lookups, cmps, fetches, cacheWrites, binds>>
vars == <<platformVars, genVars, envVars, cacheFile, loaderVars, callerVars, historyVars, opVars>>

asset == assetName("mmap_ffi")
candidate == cacheDir \o "/" \o asset

flatPath == "./dist/" \o asset
legacyPath == "./dist/" \o osTagOf(os) \o "-" \o arch \o "/" \o asset

\* Variant of devPath: the legacy nested path is tried first.
devPathLegacyFirst ==
  IF legacyDev = "file" THEN legacyPath
  ELSE IF flatDev = "file" THEN flatPath
  ELSE None

\* devPath(asset): the flat path if it is a regular file, else the legacy one.
devPath ==
  IF flatDev = "file" THEN flatPath
  ELSE IF legacyDev = "file" THEN legacyPath
  ELSE None

\* Deno.statSync calls devPath makes.
devPathStats == IF flatDev = "file" THEN 1 ELSE 2

Envs ==
  [os : BuildOs, arch : BuildArch, envOverride : {None, "", OverridePath},
   flatDev : StatKinds, legacyDev : StatKinds, cacheFile : Blobs \cup {NoFile},
   checksums : Manifests]

\* The checksum generator is not run in this process.
GenOff ==
  /\ gdir = {} /\ gpc = "off" /\ gseen = {} /\ gmap = << >> /\ gjson = << >>

InitLoader ==
  /\ libP = "null" /\ lpc = "init" /\ libPath = None
  /\ cached = NoFile /\ bin = NoFile /\ exports = None /\ lib = NoLib /\ err = None
  /\ cres = [c \in Callers |-> None]
  /\ cfound = [c \in Callers |-> None]
  /\ cacheBefore = cacheFile
  /\ loads = 0 /\ stats = 0 /\ cacheReads = 0 /\ lookups = 0 /\ cmps = << >>
  /\ fetches = << >> /\ cacheWrites = 0 /\ binds = << >>

\* Paths of user files: one may exist, the other never does.
Paths == {"data.bin", "missing.bin"}

\* A file of n zero bytes, as new Uint8Array(n) written out.
zeros(n) == [i \in 1..n |-> 0]

\* The null region reference and a handle that was never returned.
NullPtr == 0
NoHandle == [ptr |-> NullPtr, len |-> 0, path |-> None]

\* flush called without its length parameter.
Omitted == -1

\* Arguments of an operation that has not been called.
NoArgs == [path |-> None, size |-> 0, h |-> NoHandle, buf |-> << >>, offset |-> 0, length |-> Omitted]

\* Outcome of an operation that has not returned.
NoRet ==
  [kind |-> "pending", h |-> NoHandle, n |-> 0, data |-> << >>, msg |-> None, native |-> -1]

\* No native write has been made.
NoWrite == [h |-> NoHandle, buf |-> << >>, offset |-> 0, n |-> -1]

\* No handle operation has run and the environment has not been touched.
InitOpState ==
  /\ envChanges = 0
  /\ regions = << >>
  /\ carg = [c \in Callers |-> NoArgs]
  /\ cret = [c \in Callers |-> NoRet]
  /\ calls = << >>
  /\ nops = 0
  /\ handles = {}
  /\ filesAt = files
  /\ written = NoWrite
  /\ ub = FALSE

\* The same, in a process whose program is not scripted.
InitOps == InitOpState /\ script = << >>

InitEnv(E) ==
  \E e \in E :
    /\ os = e.os /\ arch = e.arch /\ envOverride = e.envOverride
    /\ flatDev = e.flatDev /\ legacyDev = e.legacyDev
    /\ cacheFile = e.cacheFile /\ checksums = e.checksums

\* A process in any environment whose first handle operation triggers the load.
Init ==
  /\ InitEnv(Envs)
  /\ InitLoader
  /\ GenOff
  /\ files = [p \in Paths |-> NoFile]
  /\ InitOps
  /\ cpc = [c \in Callers |-> IF c = 1 THEN "idle" ELSE "off"]
  /\ cop = [c \in Callers |-> "open"]

\* The environments of the concurrent runs: a supported and an unsupported
\* platform, override set or not, no dev artifact, the cache absent or holding
\* the release, the manifest complete.
ConcEnvs ==
  [os : {"linux", "freebsd"}, arch : {"x86_64"}, envOverride : {None, OverridePath},
   flatDev : {"absent"}, legacyDev : {"absent"},
   cacheFile : {NoFile, ReleaseBlob},
   checksums : {[n \in SupportedAssets |-> sha256Hex(ReleaseBlob)]}]

\* A process in which every caller starts one handle operation, in any order.
InitConc ==
  /\ InitEnv(ConcEnvs)
  /\ InitLoader
  /\ GenOff
  /\ files = [p \in Paths |-> NoFile]
  /\ InitOps
  /\ cpc = [c \in Callers |-> "idle"]
  /\ cop \in [Callers -> Ops]

(* ------------------------------------------------------------ loadLibrary *)
\* Variant of loadLibraryStart: the dev artifact is looked for before the override.
loadLibraryStartDevFirst ==
  /\ loads' = loads + 1
  /\ IF currentPlatformError # None
     THEN /\ lpc' = "failed" /\ err' = currentPlatformError
          /\ UNCHANGED <<libPath, stats>>
     ELSE /\ stats' = stats + devPathStats
          /\ libPath' = IF devPath # None THEN devPath
                        ELSE IF envOverride # None /\ envOverride # "" THEN envOverride
                        ELSE None
          /\ lpc' = IF libPath' # None THEN "dlopenV2" ELSE "ensureDir"
          /\ UNCHANGED err
  /\ UNCHANGED <<cached, bin, exports, lib, cacheBefore, cacheReads, lookups, cmps, fetches,
                 cacheWrites, binds>>

\* loadLibrary() up to its first await: platform, override, dev artifact.
loadLibraryStart ==
  /\ loads' = loads + 1
  /\ IF currentPlatformError # None
     THEN /\ lpc' = "failed" /\ err' = currentPlatformError
          /\ UNCHANGED <<libPath, stats>>
     ELSE IF envOverride # None /\ envOverride # ""
     THEN /\ libPath' = envOverride /\ lpc' = "dlopenV2"
          /\ UNCHANGED <<err, stats>>
     ELSE /\ stats' = stats + devPathStats
          /\ libPath' = devPath
          /\ lpc' = IF devPath # None THEN "dlopenV2" ELSE "ensureDir"
          /\ UNCHANGED err
  /\ UNCHANGED <<cached, bin, exports, lib, cacheBefore, cacheReads, lookups, cmps, fetches,
                 cacheWrites, binds>>

\* await ensureDir(cacheRoot): errors are ignored.
ensureDir ==
  /\ lpc = "ensureDir"
  /\ lpc' = "readCache"
  /\ UNCHANGED <<platformVars, genVars, envVars, cacheFile, libP, libPath, cached, bin, exports, lib, err,
                 callerVars, historyVars, opVars>>

\* Variant of readCache: a cache file that can be read is used as it is.
readCacheTrusting ==
  /\ lpc = "readCache"
  /\ cacheReads' = cacheReads + 1
  /\ \E readOk \in BOOLEAN :
       IF cacheFile = NoFile \/ ~readOk
       THEN /\ lpc' = "download"
            /\ UNCHANGED <<cached, libPath>>
       ELSE /\ cached' = cacheFile
            /\ libPath' = candidate
            /\ lpc' = "dlopenV2"
  /\ UNCHANGED <<platformVars, genVars, envVars, cacheFile, libP, bin, exports, lib, err,
                 callerVars, opVars,
                 cacheBefore, loads, stats, lookups, cmps, fetches, cacheWrites, binds>>

\* await Deno.readFile(candidate), then the manifest lookup; a read error or a
\* missing entry throws into the catch block, which downloads.
readCache ==
  /\ lpc = "readCache"
  /\ cacheReads' = cacheReads + 1
  /\ \E readOk \in BOOLEAN :
       IF cacheFile = NoFile \/ ~readOk
       THEN /\ lpc' = "download"
            /\ UNCHANGED <<cached, lookups>>
       ELSE /\ cached' = cacheFile
            /\ lookups' = lookups + 1
            /\ lpc' = IF truthy(lookup(asset)) THEN "hashCache" ELSE "download"
  /\ UNCHANGED <<platformVars, genVars, envVars, cacheFile, libP, libPath, bin, exports, lib, err,
                 callerVars, opVars,
                 cacheBefore, loads, stats, cmps, fetches, cacheWrites, binds>>

\* Variant of hashCache: the comparison is made but a mismatch does not throw.
hashCacheNoThrow ==
  /\ lpc = "hashCache"
  /\ cmps' = Append(cmps, [src |-> "cache", buf |-> cached,
                           equal |-> digestMatches(sha256Hex(cached), lookup(asset))])
  /\ lpc' = "dlopenV2"
  /\ libPath' = candidate
  /\ UNCHANGED <<platformVars, genVars, envVars, cacheFile, libP, cached, bin, exports, lib, err,
                 callerVars, opVars,
                 cacheBefore, loads, stats, cacheReads, lookups, fetches, cacheWrites, binds>>

\* Variant of hashCache: the mismatch is thrown out of loadLibrary, past the catch.
hashCacheRethrow ==
  /\ lpc = "hashCache"
  /\ LET ok == digestMatches(sha256Hex(cached), lookup(asset)) IN
       /\ cmps' = Append(cmps, [src |-> "cache", buf |-> cached, equal |-> ok])
       /\ lpc' = IF ok THEN "dlopenV2" ELSE "failed"
       /\ err' = IF ok THEN err ELSE "checksum mismatch (cache)"
       /\ libPath' = IF ok THEN candidate ELSE libPath
  /\ UNCHANGED <<platformVars, genVars, envVars, cacheFile, libP, cached, bin, exports, lib,
                 callerVars, opVars,
                 cacheBefore, loads, stats, cacheReads, lookups, fetches, cacheWrites, binds>>

\* await sha256Hex(cached) and the comparison; a mismatch throws into the catch.
hashCache ==
  /\ lpc = "hashCache"
  /\ LET ok == digestMatches(sha256Hex(cached), lookup(asset)) IN
       /\ cmps' = Append(cmps, [src |-> "cache", buf |-> cached, equal |-> ok])
       /\ lpc' = IF ok THEN "dlopenV2" ELSE "download"
       /\ libPath' = IF ok THEN candidate ELSE libPath
  /\ UNCHANGED <<platformVars, genVars, envVars, cacheFile, libP, cached, bin, exports, lib, err,
                 callerVars, opVars,
                 cacheBefore, loads, stats, cacheReads, lookups, fetches, cacheWrites, binds>>

\* What fetch() and r.arrayBuffer() can produce.
NetResults ==
  {[kind |-> "reject", body |-> NoFile], [kind |-> "status", body |-> NoFile]}
    \cup {[kind |-> "ok", body |-> b] : b \in Blobs}

\* Variant of download: a failed fetch falls back to whatever the cache path holds.
downloadFallback ==
  /\ lpc = "download"
  /\ \E r \in NetResults :
       /\ fetches' = Append(fetches, r.kind)
       /\ IF r.kind # "ok"
          THEN /\ lpc' = "dlopenV2" /\ libPath' = candidate
               /\ UNCHANGED <<bin, lookups, err>>
          ELSE /\ bin' = r.body
               /\ lookups' = lookups + 1
               /\ UNCHANGED libPath
               /\ IF truthy(lookup(asset))
                  THEN lpc' = "hashBin" /\ UNCHANGED err
                  ELSE lpc' = "failed" /\ err' = "No checksum"
  /\ UNCHANGED <<platformVars, genVars, envVars, cacheFile, libP, cached, exports, lib,
                 callerVars, opVars,
                 cacheBefore, loads, stats, cacheReads, cmps, cacheWrites, binds>>

\* await downloadAsset(asset), then the manifest lookup.
download ==
  /\ lpc = "download"
  /\ \E r \in NetResults :
       /\ fetches' = Append(fetches, r.kind)
       /\ IF r.kind = "reject"
          THEN /\ lpc' = "failed" /\ err' = "fetch rejected"
               /\ UNCHANGED <<bin, lookups>>
          ELSE IF r.kind = "status"
          THEN /\ lpc' = "failed" /\ err' = "Failed to fetch"
               /\ UNCHANGED <<bin, lookups>>
          ELSE /\ bin' = r.body
               /\ lookups' = lookups + 1
               /\ IF truthy(lookup(asset))
                  THEN lpc' = "hashBin" /\ UNCHANGED err
                  ELSE lpc' = "failed" /\ err' = "No checksum"
  /\ UNCHANGED <<platformVars, genVars, envVars, cacheFile, libP, libPath, cached, exports, lib,
                 callerVars, opVars,
                 cacheBefore, loads, stats, cacheReads, cmps, cacheWrites, binds>>

\* Variant of hashBin: the comparison is made but a mismatch does not throw.
hashBinNoThrow ==
  /\ lpc = "hashBin"
  /\ cmps' = Append(cmps, [src |-> "download", buf |-> bin,
                           equal |-> digestMatches(sha256Hex(bin), lookup(asset))])
  /\ lpc' = "writeCache"
  /\ UNCHANGED <<platformVars, genVars, envVars, cacheFile, libP, libPath, cached, bin, exports, lib, err,
                 callerVars, opVars,
                 cacheBefore, loads, stats, cacheReads, lookups, fetches, cacheWrites, binds>>

\* await sha256Hex(bin) and the comparison.
hashBin ==
  /\ lpc = "hashBin"
  /\ LET ok == digestMatches(sha256Hex(bin), lookup(asset)) IN
       /\ cmps' = Append(cmps, [src |-> "download", buf |-> bin, equal |-> ok])
       /\ IF ok
          THEN lpc' = "writeCache" /\ UNCHANGED err
          ELSE lpc' = "failed" /\ err' = "Checksum mismatch"
  /\ UNCHANGED <<platformVars, genVars, envVars, cacheFile, libP, libPath, cached, bin, exports, lib,
                 callerVars, opVars,
                 cacheBefore, loads, stats, cacheReads, lookups, fetches, cacheWrites, binds>>

\* await Deno.writeFile(candidate, bin, { mode: 0o755 }): it succeeds, fails
\* before touching the file, or fails after truncating it.
writeCache ==
  /\ lpc = "writeCache"
  /\ cacheWrites' = cacheWrites + 1
  /\ \E outcome \in {"ok", "denied", "truncated"} :
       IF outcome = "ok"
       THEN /\ cacheFile' = bin /\ libPath' = candidate /\ lpc' = "dlopenV2"
            /\ UNCHANGED err
       ELSE /\ cacheFile' = IF outcome = "denied" THEN cacheFile ELSE << >>
            /\ lpc' = "failed" /\ err' = "write failed"
            /\ UNCHANGED libPath
  /\ UNCHANGED <<platformVars, genVars, envVars, libP, cached, bin, exports, lib,
                 callerVars, opVars,
                 cacheBefore, loads, stats, cacheReads, lookups, cmps, fetches, binds>>

\* Variant of dlopenV2: the Legacy symbol set is tried first.
dlopenLegacyFirst ==
  /\ lpc = "dlopenV2"
  /\ binds' = Append(binds, [path |-> libPath, symbols |-> "V1"])
  /\ \E k \in ExportKinds :
       /\ exports' = k
       /\ IF k \in {"full", "legacy"}
          THEN lpc' = "done" /\ lib' = [path |-> libPath, symbols |-> "V1"]
          ELSE lpc' = "dlopenV1" /\ UNCHANGED lib
  /\ UNCHANGED <<platformVars, genVars, envVars, cacheFile, libP, libPath, cached, bin, err,
                 callerVars, opVars,
                 cacheBefore, loads, stats, cacheReads, lookups, cmps, fetches, cacheWrites>>

\* Deno.dlopen(libPath, symbolsV2)
dlopenV2 ==
  /\ lpc = "dlopenV2"
  /\ binds' = Append(binds, [path |-> libPath, symbols |-> "V2"])
  /\ \E k \in ExportKinds :
       /\ exports' = k
       /\ IF k = "full"
          THEN lpc' = "done" /\ lib' = [path |-> libPath, symbols |-> "V2"]
          ELSE lpc' = "dlopenV1" /\ UNCHANGED lib
  /\ UNCHANGED <<platformVars, genVars, envVars, cacheFile, libP, libPath, cached, bin, err,
                 callerVars, opVars,
                 cacheBefore, loads, stats, cacheReads, lookups, cmps, fetches, cacheWrites>>

\* Deno.dlopen(libPath, symbolsV1), in the catch of the first
dlopenV1 ==
  /\ lpc = "dlopenV1"
  /\ binds' = Append(binds, [path |-> libPath, symbols |-> "V1"])
  /\ IF exports = "legacy"
     THEN lpc' = "done" /\ lib' = [path |-> libPath, symbols |-> "V1"] /\ UNCHANGED err
     ELSE lpc' = "failed" /\ err' = "dlopen failed" /\ UNCHANGED lib
  /\ UNCHANGED <<platformVars, genVars, envVars, cacheFile, libP, libPath, cached, bin, exports,
                 callerVars, opVars,
                 cacheBefore, loads, stats, cacheReads, lookups, cmps, fetches, cacheWrites>>

(* ----------------------------------------------------------------- getLib *)
\* Variant of getLib: libP ?? loadLibrary(), the promise is never stored.
getLibNoMemo == loadLibraryStart /\ UNCHANGED libP

\* Variant of getLib: a rejected promise is dropped and the next call loads again.
getLibRetryRejected ==
  IF libP = "null" \/ lpc = "failed"
  THEN libP' = "promise" /\ loadLibraryStart
  ELSE UNCHANGED <<libP, lpc, libPath, cached, bin, exports, lib, err, historyVars>>

\* libP ??= loadLibrary()
getLib ==
  IF libP = "null"
  THEN libP' = "promise" /\ loadLibraryStart
  ELSE UNCHANGED <<libP, lpc, libPath, cached, bin, exports, lib, err, historyVars>>

\* Variant of Call: write and read check their bounds before awaiting getLib().
CallCheckFirst(c) ==
  /\ cpc[c] = "idle"
  /\ IF cop[c] \in {"write", "read"} /\ carg[c].offset + Len(carg[c].buf) > carg[c].h.len
     THEN /\ cpc' = [cpc EXCEPT ![c] = "off"]
          /\ cret' = [cret EXCEPT ![c] =
                [NoRet EXCEPT !.kind = "error", !.msg = cop[c] \o " beyond mapping length"]]
          /\ UNCHANGED <<platformVars, genVars, envVars, cacheFile, loaderVars, cop, cres, cfound,
                         historyVars, envChanges, files, regions, carg, calls, nops, handles,
                         filesAt, script, written, ub>>
     ELSE /\ cpc' = [cpc EXCEPT ![c] = "await"]
          /\ cfound' = [cfound EXCEPT ![c] = IF libP = "null" THEN "null"
                                             ELSE IF lpc \in {"done", "failed"} THEN "settled"
                                             ELSE "pending"]
          /\ getLib
          /\ UNCHANGED <<platformVars, genVars, envVars, cacheFile, cop, cres, opVars>>

\* A handle operation is called: its first statement is await getLib().
Call(c) ==
  /\ cpc[c] = "idle"
  /\ cpc' = [cpc EXCEPT ![c] = "await"]
  /\ cfound' = [cfound EXCEPT ![c] = IF libP = "null" THEN "null"
                                     ELSE IF lpc \in {"done", "failed"} THEN "settled"
                                     ELSE "pending"]
  /\ getLib
  /\ UNCHANGED <<platformVars, genVars, envVars, cacheFile, cop, cres, opVars>>

\* The promise settles and the awaiting operation resumes with its outcome.
Resume(c) ==
  /\ cpc[c] = "await"
  /\ lpc \in {"done", "failed"}
  /\ cpc' = [cpc EXCEPT ![c] = IF lpc = "done" THEN "gotLib" ELSE "threw"]
  /\ cres' = [cres EXCEPT ![c] = IF lpc = "done" THEN lib.path \o ":" \o lib.symbols ELSE err]
  /\ UNCHANGED <<platformVars, genVars, envVars, cacheFile, loaderVars, cop, cfound, historyVars, opVars>>

Next ==
  \/ \E c \in Callers : Call(c)
  \/ \E c \in Callers : Resume(c)
  \/ ensureDir
  \/ readCache
  \/ hashCache
  \/ download
  \/ hashBin
  \/ writeCache
  \/ dlopenV2
  \/ dlopenV1

Spec == Init /\ [][Next]_vars

SpecConc == InitConc /\ [][Next]_vars

(* ------------------------------------------- environment changing under it *)
\* The environment loadLibrary reads is changed from outside the process: the
\* override variable is set or unset, a dev artifact appears or goes, the cached
\* library is removed, replaced by the release or replaced by other content.
\* (The network answers anew on every request.)
EnvChange ==
  /\ envChanges < MaxEnvChanges
  /\ envChanges' = envChanges + 1
  /\ \/ /\ envOverride' \in {None, OverridePath} \ {envOverride}
        /\ UNCHANGED <<flatDev, legacyDev, cacheFile>>
     \/ /\ flatDev' \in StatKinds \ {flatDev}
        /\ UNCHANGED <<envOverride, legacyDev, cacheFile>>
     \/ /\ legacyDev' \in StatKinds \ {legacyDev}
        /\ UNCHANGED <<envOverride, flatDev, cacheFile>>
     \/ /\ cacheFile' \in {NoFile, ReleaseBlob, << >>} \ {cacheFile}
        /\ UNCHANGED <<envOverride, flatDev, legacyDev>>
  /\ UNCHANGED <<platformVars, genVars, checksums, loaderVars, callerVars, historyVars,
                 files, regions, carg, cret, calls, nops, handles, filesAt, script, written, ub>>

\* A process whose callers all start the same handle operation, early or late.
InitReplay ==
  /\ InitEnv(ConcEnvs)
  /\ InitLoader
  /\ GenOff
  /\ files = [p \in Paths |-> NoFile]
  /\ InitOps
  /\ cpc = [c \in Callers |-> "idle"]
  /\ cop \in {[c \in Callers |-> op] : op \in Ops}

NextEnv ==
  \/ Next
  \/ EnvChange

SpecEnv == InitReplay /\ [][NextEnv]_vars

(* ------------------------------------------------------ the native engine *)
\* Sizes asked of openWriteWithSize, offsets and flush lengths the program passes.
Sizes == 0..MaxBlobLen
Offsets == -1..(MaxBlobLen + 1)
FlushLengths == {Omitted} \cup (0..MaxBlobLen)

\* Buffers the program reads into: new Uint8Array(n).
ReadBufs == {zeros(n) : n \in 0..MaxBlobLen}

\* One native or file-system call, as the protocol layer issued it.
NativeCall(fn, path, ptr, off, len) ==
  [fn |-> fn, path |-> path, ptr |-> ptr, off |-> off, len |-> len]

\* Length of a user file, -1 when there is none.
fileLen(fs, p) == IF fs[p] = NoFile THEN -1 ELSE Len(fs[p])

\* Variant of resized: the file is left as long as it was.
resizedNever(content, n) == content

\* A file cut or zero-extended to n bytes.
resized(content, n) == [i \in 1..n |-> IF i <= Len(content) THEN content[i] ELSE 0]

\* A byte sequence with n bytes of src copied in after the first off bytes.
overwritten(content, off, src, n) ==
  [i \in 1..Len(content) |-> IF i > off /\ i <= off + n THEN src[i - off] ELSE content[i]]

\* The region a new mapping of path gets: its length is the file's length.
newRegion(path, rw) == [path |-> path, len |-> fileLen(files, path), rw |-> rw, live |-> TRUE]

\* A native access that stays inside a live mapping backed by its file.
validAccess(ptr, off, len) ==
  /\ ptr \in 1..Len(regions)
  /\ regions[ptr].live
  /\ off >= 0 /\ off + len <= regions[ptr].len
  /\ regions[ptr].len <= fileLen(files, regions[ptr].path)

\* mmap_open / mmap_open_write: null for a missing file, and possibly for an
\* existing one (permissions, an unmappable file); else a new region reference.
nativeOpenResults(path) ==
  IF files[path] = NoFile THEN {NullPtr} ELSE {NullPtr, Len(regions) + 1}

(* ------------------------------------------------- the handle operations *)
\* Names bound by each symbol set.
symbolsV1 == {"mmap_open", "mmap_open_write", "mmap_read", "mmap_write", "mmap_flush", "mmap_close"}
symbolsV2 == symbolsV1 \cup {"mmap_open_write_with_size"}

\* lib.symbols[name]: the bound function, or undefined when the set lacks it.
boundSymbol(name) ==
  IF name \in (IF lib.symbols = "V2" THEN symbolsV2 ELSE symbolsV1) THEN "function" ELSE None

\* v?.parameters: undefined for undefined; a function bound by Deno.dlopen is a
\* plain callable with no property of that name, so undefined for it too.
parametersOf(v) == None

\* (lib.symbols as any).mmap_open_write_with_size?.parameters, as a condition
hasNative == parametersOf(boundSymbol("mmap_open_write_with_size")) # None

\* The arguments each operation can be called with.
ArgsOf(op) ==
  IF op \in {"open", "openWrite"} THEN {[NoArgs EXCEPT !.path = p] : p \in Paths}
  ELSE IF op = "openWriteWithSize"
    THEN {[NoArgs EXCEPT !.path = p, !.size = n] : p \in Paths, n \in Sizes}
  ELSE IF op = "write"
    THEN {[NoArgs EXCEPT !.h = h, !.buf = b, !.offset = o] : h \in handles, b \in Blobs, o \in Offsets}
  ELSE IF op = "read"
    THEN {[NoArgs EXCEPT !.h = h, !.buf = b, !.offset = o] : h \in handles, b \in ReadBufs, o \in Offsets}
  ELSE IF op = "flush"
    THEN {[NoArgs EXCEPT !.h = h, !.offset = o, !.length = n] :
            h \in handles, o \in Offsets, n \in FlushLengths}
  ELSE {[NoArgs EXCEPT !.h = h] : h \in handles}

\* The program calls an operation with some arguments; its first statement is
\* await getLib().
CallOp(c) ==
  /\ cpc[c] = "idle"
  /\ nops < MaxOps
  /\ nops' = nops + 1
  /\ \E op \in Ops : \E a \in ArgsOf(op) :
       /\ cop' = [cop EXCEPT ![c] = op]
       /\ carg' = [carg EXCEPT ![c] = a]
  /\ cret' = [cret EXCEPT ![c] = NoRet]
  /\ calls' = << >>
  /\ filesAt' = files
  /\ cpc' = [cpc EXCEPT ![c] = "await"]
  /\ cfound' = [cfound EXCEPT ![c] = IF libP = "null" THEN "null"
                                     ELSE IF lpc \in {"done", "failed"} THEN "settled"
                                     ELSE "pending"]
  /\ getLib
  /\ UNCHANGED <<platformVars, genVars, envVars, cacheFile, cres, envChanges, files, regions, handles,
                 script, written, ub>>

\* await getLib() rejected: the operation rejects with the load error.
rejected(c) ==
  /\ cpc[c] = "threw"
  /\ cpc' = [cpc EXCEPT ![c] = "idle"]
  /\ cret' = [cret EXCEPT ![c] = [NoRet EXCEPT !.kind = "error", !.msg = cres[c]]]
  /\ UNCHANGED <<platformVars, genVars, envVars, cacheFile, loaderVars, cop, cres, cfound, historyVars,
                 envChanges, files, regions, carg, calls, nops, handles, filesAt, script, written, ub>>

\* Variant of handleOf: the out-parameter length is not copied into the handle.
handleOfNoLength(p, len, path) == [ptr |-> p, len |-> 0, path |-> path]

\* { ptr: p, len: Number(lenBuf[0]), path }
handleOf(p, len, path) == [ptr |-> p, len |-> len, path |-> path]

\* !p || ptrValue(p) === 0n
isNull(p) == p = NullPtr

\* The body shared by open and openWrite: one native open, a null check, the handle.
openWith(c, fn, rw, failure) ==
  LET path == carg[c].path IN
  \E p \in nativeOpenResults(path) :
    /\ calls' = Append(calls, NativeCall(fn, path, NullPtr, 0, 0))
    /\ IF isNull(p)
       THEN /\ cret' = [cret EXCEPT ![c] =
                  [NoRet EXCEPT !.kind = "error", !.msg = failure \o path, !.native = p]]
            /\ UNCHANGED <<regions, handles>>
       ELSE LET r == newRegion(path, rw)
                h == handleOf(p, r.len, path) IN
            /\ regions' = Append(regions, r)
            /\ handles' = handles \cup {h}
            /\ cret' = [cret EXCEPT ![c] = [NoRet EXCEPT !.kind = "handle", !.h = h, !.native = p]]
    /\ cpc' = [cpc EXCEPT ![c] = "idle"]
    /\ UNCHANGED <<platformVars, genVars, envVars, cacheFile, loaderVars, cop, cres, cfound, historyVars,
                   envChanges, files, carg, nops, filesAt, script, written, ub>>

\* open(path), after await getLib()
open(c) ==
  /\ cpc[c] = "gotLib" /\ cop[c] = "open"
  /\ openWith(c, "mmap_open", FALSE, "mmap_open failed: ")

\* openWrite(path), after await getLib(); also the tail call of openWriteWithSize
openWrite(c) ==
  /\ \/ cpc[c] = "gotLib" /\ cop[c] = "openWrite"
     \/ cpc[c] = "truncated" /\ cop[c] = "openWriteWithSize"
  /\ openWith(c, "mmap_open_write", TRUE, "mmap_open_write failed: ")

\* openWriteWithSize(path, size), after await getLib(): the native call when
\* hasNative holds, else await Deno.truncate(path, Number(want)) and then
\* openWrite(path). Deno.truncate rejects for a missing file and otherwise sets
\* the length to exactly want.
openWriteWithSize(c) ==
  /\ cpc[c] = "gotLib" /\ cop[c] = "openWriteWithSize"
  /\ LET path == carg[c].path
         want == carg[c].size IN
     IF hasNative
     THEN \E p \in nativeOpenResults(path) :
            /\ calls' = Append(calls, NativeCall("mmap_open_write_with_size", path, NullPtr, 0, want))
            /\ IF isNull(p)
               THEN /\ cret' = [cret EXCEPT ![c] =
                          [NoRet EXCEPT !.kind = "error", !.native = p,
                                        !.msg = "mmap_open_write_with_size failed: " \o path]]
                    /\ UNCHANGED <<files, regions, handles>>
               ELSE LET grown == IF Len(files[path]) >= want THEN files[path]
                                 ELSE resized(files[path], want)
                        h == handleOf(p, Len(grown), path) IN
                    /\ files' = [files EXCEPT ![path] = grown]
                    /\ regions' = Append(regions, [path |-> path, len |-> Len(grown),
                                                   rw |-> TRUE, live |-> TRUE])
                    /\ handles' = handles \cup {h}
                    /\ cret' = [cret EXCEPT ![c] =
                          [NoRet EXCEPT !.kind = "handle", !.h = h, !.native = p]]
            /\ cpc' = [cpc EXCEPT ![c] = "idle"]
     ELSE /\ calls' = Append(calls, NativeCall("Deno.truncate", path, NullPtr, 0, want))
          /\ IF files[path] = NoFile
             THEN /\ cret' = [cret EXCEPT ![c] = [NoRet EXCEPT !.kind = "error", !.msg = "NotFound"]]
                  /\ cpc' = [cpc EXCEPT ![c] = "idle"]
                  /\ UNCHANGED files
             ELSE /\ files' = [files EXCEPT ![path] = resized(files[path], want)]
                  /\ cpc' = [cpc EXCEPT ![c] = "truncated"]
                  /\ UNCHANGED cret
          /\ UNCHANGED <<regions, handles>>
  /\ UNCHANGED <<platformVars, genVars, envVars, cacheFile, loaderVars, cop, cres, cfound, historyVars,
                 envChanges, carg, nops, filesAt, script, written, ub>>

\* Variant of inBounds: the guard lets one byte past the end through.
inBoundsOffByOne(h, len, offset) == ~(offset + len > h.len + 1)

\* The negation of the guard of write and read: Number(offset) + length > h.len
inBounds(h, len, offset) == ~(offset + len > h.len)

\* return Number(n): what write and read make of the count the native call returned.
transferResult(n) == [NoRet EXCEPT !.kind = "count", !.n = n, !.native = n]

\* Counts mmap_write and mmap_read can return for a request of len bytes.
nativeCounts(len) == 0..len

\* Variant of writeCall: the copy always starts at the beginning of the mapping.
writeCallAtStart(h, src, offset) == NativeCall("mmap_write", None, h.ptr, 0, Len(src))

\* lib.symbols.mmap_write(h.ptr, offset, srcPtr, BigInt(src.length))
writeCall(h, src, offset) == NativeCall("mmap_write", None, h.ptr, offset, Len(src))

\* write(h, src, offset), after await getLib()
write(c) ==
  /\ cpc[c] = "gotLib" /\ cop[c] = "write"
  /\ LET h == carg[c].h
         src == carg[c].buf
         offset == carg[c].offset IN
     IF ~inBounds(h, Len(src), offset)
     THEN /\ cret' = [cret EXCEPT ![c] =
                [NoRet EXCEPT !.kind = "error", !.msg = "write beyond mapping length"]]
          /\ UNCHANGED <<calls, files, written, ub>>
     ELSE LET call == writeCall(h, src, offset) IN
          /\ calls' = Append(calls, call)
          /\ \E n \in nativeCounts(call.len) :
               /\ cret' = [cret EXCEPT ![c] = transferResult(n)]
               /\ written' = [h |-> h, buf |-> src, offset |-> offset, n |-> n]
               /\ IF validAccess(call.ptr, call.off, call.len) /\ regions[call.ptr].rw
                  THEN /\ files' = [files EXCEPT ![regions[call.ptr].path] =
                                      overwritten(@, call.off, src, n)]
                       /\ UNCHANGED ub
                  ELSE ub' = TRUE /\ UNCHANGED files
  /\ cpc' = [cpc EXCEPT ![c] = "idle"]
  /\ UNCHANGED <<platformVars, genVars, envVars, cacheFile, loaderVars, cop, cres, cfound, historyVars,
                 envChanges, regions, carg, nops, handles, filesAt, script>>

\* read(h, dst, offset), after await getLib()
read(c) ==
  /\ cpc[c] = "gotLib" /\ cop[c] = "read"
  /\ LET h == carg[c].h
         dst == carg[c].buf
         offset == carg[c].offset IN
     IF ~inBounds(h, Len(dst), offset)
     THEN /\ cret' = [cret EXCEPT ![c] =
                [NoRet EXCEPT !.kind = "error", !.msg = "read beyond mapping length"]]
          /\ UNCHANGED <<calls, ub>>
     ELSE /\ calls' = Append(calls, NativeCall("mmap_read", None, h.ptr, offset, Len(dst)))
          /\ \E n \in nativeCounts(Len(dst)) :
               IF validAccess(h.ptr, offset, Len(dst))
               THEN /\ cret' = [cret EXCEPT ![c] =
                          [transferResult(n) EXCEPT
                             !.data = overwritten(dst, 0,
                                        SubSeq(files[regions[h.ptr].path], offset + 1,
                                               offset + Len(dst)), n)]]
                    /\ UNCHANGED ub
               ELSE /\ cret' = [cret EXCEPT ![c] = transferResult(n)]
                    /\ ub' = TRUE
  /\ cpc' = [cpc EXCEPT ![c] = "idle"]
  /\ UNCHANGED <<platformVars, genVars, envVars, cacheFile, loaderVars, cop, cres, cfound, historyVars,
                 envChanges, files, regions, carg, nops, handles, filesAt, script, written>>

\* Variant of flushLength: an omitted length flushes the whole mapping.
flushLengthWhole(h, offset, length) == IF length = Omitted THEN h.len ELSE length

\* BigInt(length ?? h.len - Number(offset))
flushLength(h, offset, length) == IF length = Omitted THEN h.len - offset ELSE length

\* Statuses mmap_flush can return: zero for success.
FlushStatuses == {0, 1}

\* flush(h, offset, length), after await getLib()
flush(c) ==
  /\ cpc[c] = "gotLib" /\ cop[c] = "flush"
  /\ LET h == carg[c].h
         offset == carg[c].offset
         len == flushLength(h, offset, carg[c].length) IN
     /\ calls' = Append(calls, NativeCall("mmap_flush", None, h.ptr, offset, len))
     /\ \E rc \in FlushStatuses :
          cret' = [cret EXCEPT ![c] =
                     IF rc # 0
                     THEN [NoRet EXCEPT !.kind = "error", !.msg = "mmap_flush failed", !.native = rc]
                     ELSE [NoRet EXCEPT !.kind = "void", !.native = rc]]
  /\ cpc' = [cpc EXCEPT ![c] = "idle"]
  /\ UNCHANGED <<platformVars, genVars, envVars, cacheFile, loaderVars, cop, cres, cfound, historyVars,
                 envChanges, files, regions, carg, nops, handles, filesAt, script, written, ub>>

\* Variant of close: a handle whose region was released is rejected locally.
closeLiveOnly(c) ==
  /\ cpc[c] = "gotLib" /\ cop[c] = "close"
  /\ LET h == carg[c].h IN
     IF h.ptr \in 1..Len(regions) /\ regions[h.ptr].live
     THEN /\ calls' = Append(calls, NativeCall("mmap_close", None, h.ptr, 0, h.len))
          /\ regions' = [regions EXCEPT ![h.ptr].live = FALSE]
          /\ cret' = [cret EXCEPT ![c] = [NoRet EXCEPT !.kind = "void"]]
     ELSE /\ cret' = [cret EXCEPT ![c] = [NoRet EXCEPT !.kind = "error", !.msg = "closed"]]
          /\ UNCHANGED <<calls, regions>>
  /\ cpc' = [cpc EXCEPT ![c] = "idle"]
  /\ UNCHANGED <<platformVars, genVars, envVars, cacheFile, loaderVars, cop, cres, cfound, historyVars,
                 envChanges, files, carg, nops, handles, filesAt, script, written, ub>>

\* close(h), after await getLib(): one mmap_close(h.ptr, h.len), nothing checked.
close(c) ==
  /\ cpc[c] = "gotLib" /\ cop[c] = "close"
  /\ LET h == carg[c].h IN
     /\ calls' = Append(calls, NativeCall("mmap_close", None, h.ptr, 0, h.len))
     /\ IF h.ptr \in 1..Len(regions) /\ regions[h.ptr].live
        THEN regions' = [regions EXCEPT ![h.ptr].live = FALSE] /\ UNCHANGED ub
        ELSE ub' = TRUE /\ UNCHANGED regions
  /\ cpc' = [cpc EXCEPT ![c] = "idle"]
  /\ cret' = [cret EXCEPT ![c] = [NoRet EXCEPT !.kind = "void"]]
  /\ UNCHANGED <<platformVars, genVars, envVars, cacheFile, loaderVars, cop, cres, cfound, historyVars,
                 envChanges, files, carg, nops, handles, filesAt, script, written>>

\* A process on a supported platform with the override set, one user file of
\* some length, and a program that runs handle operations one after the other.
InitHandles ==
  /\ os = "linux" /\ arch = "x86_64" /\ envOverride = OverridePath
  /\ flatDev = "absent" /\ legacyDev = "absent" /\ cacheFile = NoFile
  /\ checksums = [n \in SupportedAssets |-> sha256Hex(ReleaseBlob)]
  /\ InitLoader
  /\ GenOff
  /\ \E n \in Sizes : files = [p \in Paths |-> IF p = "data.bin" THEN zeros(n) ELSE NoFile]
  /\ InitOps
  /\ cpc = [c \in Callers |-> IF c = 1 THEN "idle" ELSE "off"]
  /\ cop = [c \in Callers |-> "open"]

NextHandles ==
  \/ \E c \in Callers : CallOp(c)
  \/ \E c \in Callers : Resume(c)
  \/ \E c \in Callers : rejected(c)
  \/ dlopenV2
  \/ dlopenV1
  \/ \E c \in Callers : open(c)
  \/ \E c \in Callers : openWrite(c)
  \/ \E c \in Callers : openWriteWithSize(c)
  \/ \E c \in Callers : write(c)
  \/ \E c \in Callers : read(c)
  \/ \E c \in Callers : flush(c)
  \/ \E c \in Callers : close(c)

SpecHandles == InitHandles /\ [][NextHandles]_vars

(* ------------------------------------------------------ scripted programs *)
\* The write-then-read cycle of the tests, from either write-mapping open, and
\* programs that go on using a handle after closing it.
Scripts ==
  {<<ow, "write", "flush", "close", "open", "read">> : ow \in {"openWrite", "openWriteWithSize"}}
    \cup {<<"openWrite", "close", op>> : op \in {"close", "write", "read", "flush"}}

\* The arguments the program passes at its next step: it opens its one file
\* at any size, flushes whole what it just wrote, reads from the handle it just
\* opened, and otherwise passes any handle it holds with any buffer and offset.
StepArgs(c) ==
  LET op == script[nops + 1]
      prev == IF nops = 0 THEN None ELSE script[nops] IN
  IF op \in {"open", "openWrite", "openWriteWithSize"}
    THEN {a \in ArgsOf(op) : a.path = "data.bin"}
  ELSE IF op = "flush" /\ prev = "write"
    THEN {a \in ArgsOf(op) : a.h = carg[c].h /\ a.offset = 0 /\ a.length = Omitted}
  ELSE IF op = "read" /\ prev = "open"
    THEN {a \in ArgsOf(op) : a.h = cret[c].h}
  ELSE ArgsOf(op)

\* The program calls the next operation of its script; an operation that threw
\* ended the program.
CallStep(c) ==
  /\ cpc[c] = "idle"
  /\ nops < Len(script)
  /\ nops > 0 => cret[c].kind # "error"
  /\ nops' = nops + 1
  /\ \E a \in StepArgs(c) :
       /\ cop' = [cop EXCEPT ![c] = script[nops + 1]]
       /\ carg' = [carg EXCEPT ![c] = a]
  /\ cret' = [cret EXCEPT ![c] = NoRet]
  /\ calls' = << >>
  /\ filesAt' = files
  /\ cpc' = [cpc EXCEPT ![c] = "await"]
  /\ cfound' = [cfound EXCEPT ![c] = IF libP = "null" THEN "null"
                                     ELSE IF lpc \in {"done", "failed"} THEN "settled"
                                     ELSE "pending"]
  /\ getLib
  /\ UNCHANGED <<platformVars, genVars, envVars, cacheFile, cres, envChanges, files, regions, handles,
                 script, written, ub>>

\* A process on a supported platform with the override set, one user file of
\* some length, and a program that runs one of the scripts.
InitScripted ==
  /\ os = "linux" /\ arch = "x86_64" /\ envOverride = OverridePath
  /\ flatDev = "absent" /\ legacyDev = "absent" /\ cacheFile = NoFile
  /\ checksums = [n \in SupportedAssets |-> sha256Hex(ReleaseBlob)]
  /\ InitLoader
  /\ GenOff
  /\ \E n \in Sizes : files = [p \in Paths |-> IF p = "data.bin" THEN zeros(n) ELSE NoFile]
  /\ InitOpState
  /\ script \in Scripts
  /\ cpc = [c \in Callers |-> IF c = 1 THEN "idle" ELSE "off"]
  /\ cop = [c \in Callers |-> "open"]

NextScripted ==
  \/ \E c \in Callers : CallStep(c)
  \/ \E c \in Callers : Resume(c)
  \/ \E c \in Callers : rejected(c)
  \/ dlopenV2
  \/ dlopenV1
  \/ \E c \in Callers : open(c)
  \/ \E c \in Callers : openWrite(c)
  \/ \E c \in Callers : openWriteWithSize(c)
  \/ \E c \in Callers : write(c)
  \/ \E c \in Callers : read(c)
  \/ \E c \in Callers : flush(c)
  \/ \E c \in Callers : close(c)

SpecScripted == InitScripted /\ [][NextScripted]_vars

(* --------------------------------------------------- the checksum generator *)
\* The file names DEFAULT_REGEX accepts:
\* ^deno_mmapio_ffi-(windows|linux|macos)-(x86_64|aarch64)\.(dll|so|dylib)$
DefaultAccepted ==
  {"deno_mmapio_ffi-" \o t \o "-" \o a \o "." \o e :
     t \in {"windows", "linux", "macos"}, a \in {"x86_64", "aarch64"}, e \in {"dll", "so", "dylib"}}

\* nameRegex.test(base), with no --name-regex given
nameRegexTest(base) == base \in DefaultAccepted

\* Files a release directory can hold: the loader's published assets and the
\* names the generator's header lists, in the order Array.prototype.sort puts
\* them (by UTF-16 code unit).
NameOrder ==
  <<"deno_mmapio_ffi-linux-x86_64.so", "deno_mmapio_ffi-macos-aarch64.dylib",
    "deno_mmapio_ffi-windows-x86_64.dll", "mmap_ffi-linux-x86_64.so",
    "mmap_ffi-macos-aarch64.dylib", "mmap_ffi-windows-x86_64.dll">>
GenNames == {NameOrder[i] : i \in DOMAIN NameOrder}

\* Position of a name in that order.
rank(name) == CHOOSE i \in DOMAIN NameOrder : NameOrder[i] = name

\* Object.keys(map).sort()
sortedKeys(map) ==
  LET present(k) == \E i \in DOMAIN map : map[i].k = k IN
  SelectSeq(NameOrder, present)

\* map[k]
valueOf(map, k) == (CHOOSE e \in {map[i] : i \in DOMAIN map} : e.k = k).v

\* collect(): one turn of the walk over a file not yet visited; a base name
\* the filter rejects is skipped, any other is hashed and entered.
collectFile ==
  /\ gpc = "collect"
  /\ \E base \in gdir \ gseen :
       /\ gseen' = gseen \cup {base}
       /\ gmap' = IF nameRegexTest(base)
                  THEN Append(gmap, [k |-> base, v |-> sha256Hex(ReleaseBlob)])
                  ELSE gmap
  /\ UNCHANGED <<platformVars, envVars, cacheFile, loaderVars, callerVars, historyVars, opVars,
                 gdir, gpc, gjson>>

\* collect(): the walk is over and the map is returned.
collectReturn ==
  /\ gpc = "collect" /\ gseen = gdir
  /\ gpc' = "write"
  /\ UNCHANGED <<platformVars, envVars, cacheFile, loaderVars, callerVars, historyVars, opVars,
                 gdir, gseen, gmap, gjson>>

\* writeJson(): the entries are written out in the order of the sorted keys.
writeJson ==
  /\ gpc = "write"
  /\ LET keys == sortedKeys(gmap) IN
       gjson' = [i \in DOMAIN keys |-> [k |-> keys[i], v |-> valueOf(gmap, keys[i])]]
  /\ gpc' = "done"
  /\ UNCHANGED <<platformVars, envVars, cacheFile, loaderVars, callerVars, historyVars, opVars,
                 gdir, gseen, gmap>>

\* The generator is run with default options over a directory holding any of
\* those files; nothing else happens in the process.
InitGen ==
  /\ os = "linux" /\ arch = "x86_64" /\ envOverride = None
  /\ flatDev = "absent" /\ legacyDev = "absent" /\ cacheFile = NoFile
  /\ checksums = [n \in {} |-> << >>]
  /\ libP = "null" /\ lpc = "init" /\ libPath = None
  /\ cached = NoFile /\ bin = NoFile /\ exports = None /\ lib = NoLib /\ err = None
  /\ cres = [c \in Callers |-> None]
  /\ cfound = [c \in Callers |-> None]
  /\ cacheBefore = cacheFile
  /\ loads = 0 /\ stats = 0 /\ cacheReads = 0 /\ lookups = 0 /\ cmps = << >>
  /\ fetches = << >> /\ cacheWrites = 0 /\ binds = << >>
  /\ files = [p \in Paths |-> NoFile]
  /\ InitOps
  /\ cpc = [c \in Callers |-> "off"]
  /\ cop = [c \in Callers |-> "open"]
  /\ gdir \in SUBSET GenNames
  /\ gpc = "collect" /\ gseen = {} /\ gmap = << >> /\ gjson = << >>

NextGen ==
  \/ collectFile
  \/ collectReturn
  \/ writeJson

SpecGen == InitGen /\ [][NextGen]_vars

(* ------------------------------------- a first operation that is out of range *)
\* A handle the program made up itself: MmapHandle is a plain object type.
ForgedHandles == {[ptr |-> NullPtr, len |-> n, path |-> "data.bin"] : n \in {0, 1}}

\* A process whose first operation is a write or a read on such a handle, in
\* range or one byte past it, in an environment where the load may download.
InitFirstTransfer ==
  /\ InitEnv(ConcEnvs)
  /\ InitLoader
  /\ GenOff
  /\ files = [p \in Paths |-> NoFile]
  /\ InitOps
  /\ cpc = [c \in Callers |-> IF c = 1 THEN "idle" ELSE "off"]
  /\ cop \in {[c \in Callers |-> op] : op \in {"write", "read"}}

\* The program picks the arguments of its first operation.
ChooseArgs(c) ==
  /\ cpc[c] = "idle" /\ carg[c] = NoArgs /\ cret[c] = NoRet
  /\ \E h \in ForgedHandles : \E b \in ReadBufs : \E o \in {0, 1} :
       /\ b # << >>
       /\ carg' = [carg EXCEPT ![c] = [NoArgs EXCEPT !.h = h, !.buf = b, !.offset = o]]
  /\ UNCHANGED <<platformVars, genVars, envVars, cacheFile, loaderVars, callerVars, historyVars,
                 envChanges, files, regions, cret, calls, nops, handles, filesAt, script, written, ub>>

NextFirstTransfer ==
  \/ \E c \in Callers : ChooseArgs(c)
  \/ \E c \in Callers : carg[c] # NoArgs /\ cret[c] = NoRet /\ Call(c)
  \/ \E c \in Callers : Resume(c)
  \/ \E c \in Callers : rejected(c)
  \/ ensureDir
  \/ readCache
  \/ hashCache
  \/ download
  \/ hashBin
  \/ writeCache
  \/ dlopenV2
  \/ dlopenV1
  \/ \E c \in Callers : write(c)
  \/ \E c \in Callers : read(c)

SpecFirstTransfer == InitFirstTransfer /\ [][NextFirstTransfer]_vars

(* ------------------------------------------------------------ properties *)
supportedPlatform == currentPlatformError = None
overrideSet == envOverride # None /\ envOverride # ""
\* The cache step is reached: supported platform, no override, no dev artifact.
cacheResolution == supportedPlatform /\ ~overrideSet /\ devPath = None /\ lpc # "init"
\* Whether a buffer's digest equals the manifest entry of the asset, up to case.
matchesManifest(b) ==
  /\ b # NoFile
  /\ truthy(lookup(asset))
  /\ toLowerCase(sha256Hex(b)) = toLowerCase(lookup(asset))
bindsOnlyAt(p) == \A i \in DOMAIN binds : binds[i].path = p
binding == lpc \in {"dlopenV2", "dlopenV1", "done"} \/ (lpc = "failed" /\ err = "dlopen failed")
downloadStepErrors ==
  {"fetch rejected", "Failed to fetch", "Checksum mismatch", "write failed", "dlopen failed"}

\* C1: whenever loadLibrary is about to bind, or has tried to bind, the cache
\* path, the last digest comparison it made was over the whole buffer that the
\* cache path holds and found it equal, up to case, to the manifest entry; a
\* mismatch is never the last comparison before a bind of the cache path.
C1_CacheBindVerified ==
  (libPath = candidate \/ \E i \in DOMAIN binds : binds[i].path = candidate) =>
    /\ cmps # << >>
    /\ cmps[Len(cmps)].equal
    /\ cmps[Len(cmps)].buf = cacheFile
    /\ matchesManifest(cacheFile)

\* C1 witness: the cache path is bound after a rejected cache file was replaced
\* by a download accepted against an upper-case manifest entry.
C1_Witness ==
  /\ lpc = "done" /\ lib.path = candidate
  /\ Len(cmps) = 2 /\ ~cmps[1].equal /\ cmps[2].equal
  /\ lookup(asset) # sha256Hex(cacheFile)

\* C2: once downloaded bytes have been compared and do not match the manifest
\* digest, loadLibrary has failed with the checksum-mismatch error, no dlopen
\* was made, and the cache file holds what it held before the call.
C2_TamperedDownloadRejected ==
  (bin # NoFile /\ truthy(lookup(asset)) /\ ~matchesManifest(bin) /\ lpc # "hashBin") =>
    /\ lpc = "failed" /\ err = "Checksum mismatch"
    /\ binds = << >>
    /\ cacheWrites = 0
    /\ cacheFile = cacheBefore

\* C2 witness: a download that differs from the release in its last byte is
\* rejected while the cache is empty.
C2_Witness ==
  /\ lpc = "failed" /\ err = "Checksum mismatch"
  /\ bin = <<1, 1>> /\ matchesManifest(ReleaseBlob)
  /\ cacheFile = NoFile

\* C3: with no override and no dev artifact, once the cache file has been read
\* and its digest found different from the manifest entry, loadLibrary has not
\* failed on that account and binds no cached bytes: it goes on to one fetch,
\* any failure is one of the download step's, and a bind happens only on the
\* cache path after the cache file was overwritten with the verified download.
C3_CacheMismatchFallsThrough ==
  (cacheResolution /\ cached # NoFile /\ truthy(lookup(asset)) /\ ~matchesManifest(cached)
     /\ lpc # "hashCache") =>
    /\ lpc = "download" \/ Len(fetches) = 1
    /\ lpc = "failed" => err \in downloadStepErrors
    /\ (binds # << >> \/ lpc \in {"dlopenV2", "done"}) =>
         /\ libPath = candidate /\ bindsOnlyAt(candidate)
         /\ cacheWrites = 1 /\ cacheFile = bin /\ cacheFile # cached
         /\ matchesManifest(bin)
         /\ cmps[Len(cmps)] = [src |-> "download", buf |-> bin, equal |-> TRUE]

\* C3 witness: a stale cache file was replaced and the cache path bound.
C3_Witness ==
  /\ cacheResolution /\ cacheBefore # NoFile /\ ~matchesManifest(cacheBefore)
  /\ cached = cacheBefore
  /\ lpc = "done" /\ lib.path = candidate /\ cacheFile = ReleaseBlob

\* C4: with no override and no dev artifact, once the cache file has been read
\* and its digest found equal to the manifest entry, loadLibrary binds the
\* cache path and has made no fetch and no write of the cache file.
C4_CacheHitNoNetwork ==
  (cacheResolution /\ cached # NoFile /\ matchesManifest(cached) /\ lpc # "hashCache") =>
    /\ binding
    /\ libPath = candidate /\ bindsOnlyAt(candidate)
    /\ fetches = << >> /\ bin = NoFile
    /\ cacheWrites = 0 /\ cacheFile = cacheBefore

\* C4 witness: a cached release is bound against an upper-case manifest entry.
C4_Witness ==
  /\ cacheResolution /\ cached = ReleaseBlob
  /\ lookup(asset) = toUpperCase(sha256Hex(ReleaseBlob))
  /\ lpc = "done" /\ lib.path = candidate /\ fetches = << >>

\* C5: on a supported platform with MMAP_LIB_PATH set to a path, loadLibrary
\* binds exactly that path whatever the dev directory and the cache hold: no
\* stat of the dev paths, no cache read, no digest, no manifest lookup, no
\* fetch and no cache write.
C5_OverrideVerbatim ==
  (supportedPlatform /\ overrideSet /\ lpc # "init") =>
    /\ binding
    /\ libPath = envOverride /\ bindsOnlyAt(envOverride)
    /\ lpc = "done" => lib.path = envOverride
    /\ stats = 0 /\ cacheReads = 0 /\ cmps = << >> /\ lookups = 0
    /\ fetches = << >> /\ cacheWrites = 0 /\ cacheFile = cacheBefore

\* C5 witness: the override is bound although a dev artifact and a verified
\* cache file both exist.
C5_Witness ==
  /\ overrideSet /\ flatDev = "file" /\ matchesManifest(cacheFile)
  /\ lpc = "done" /\ lib.path = envOverride

\* C6: on a supported platform with no override and a dev artifact, loadLibrary
\* binds the dev artifact with no digest, manifest lookup, cache access or
\* fetch; the flat path is bound when it is a regular file, the legacy path
\* only when the flat one is absent or not a regular file.
C6_DevArtifact ==
  (supportedPlatform /\ ~overrideSet /\ (flatDev = "file" \/ legacyDev = "file") /\ lpc # "init") =>
    /\ binding
    /\ libPath = (IF flatDev = "file" THEN flatPath ELSE legacyPath)
    /\ bindsOnlyAt(libPath)
    /\ lpc = "done" => lib.path = libPath
    /\ cacheReads = 0 /\ cmps = << >> /\ lookups = 0
    /\ fetches = << >> /\ cacheWrites = 0 /\ cacheFile = cacheBefore

\* C6 witness: both dev paths are regular files and the flat one is bound.
C6_Witness ==
  /\ ~overrideSet /\ flatDev = "file" /\ legacyDev = "file"
  /\ lpc = "done" /\ lib.path = flatPath /\ flatPath # legacyPath

\* C7: whenever loadLibrary has looked the asset up in a manifest that has no
\* entry for it and has failed, the error is the missing-checksum-entry error
\* and no other.
C7_MissingEntryError ==
  (lookups > 0 /\ asset \notin DOMAIN checksums /\ lpc = "failed") => err = "No checksum"

\* C8 as stated: whenever loadLibrary has bound a library, the manifest has an
\* entry for the asset.
C8_BoundImpliesEntry ==
  lpc = "done" => (asset \in DOMAIN checksums /\ truthy(lookup(asset)))

\* C8 as amended: whenever loadLibrary binds, or has bound, the cache path, the
\* manifest has a non-empty entry for the asset; and when resolution reaches
\* the cache step with no such entry, no dlopen is ever made and loadLibrary
\* does not succeed.
C8_CacheBoundImpliesEntry ==
  /\ (libPath = candidate \/ \E i \in DOMAIN binds : binds[i].path = candidate) =>
       (asset \in DOMAIN checksums /\ truthy(lookup(asset)))
  /\ (cacheResolution /\ ~truthy(lookup(asset))) =>
       (binds = << >> /\ lpc \notin {"dlopenV2", "dlopenV1", "done"})

\* C8 witness: the cache path is bound under a manifest that has entries for
\* the published assets only.
C8_Witness ==
  /\ lpc = "done" /\ lib.path = candidate
  /\ DOMAIN checksums = PublishedAssets /\ asset \in DOMAIN checksums

\* C9: once a fetch has failed (rejected, or answered with a non-OK status),
\* loadLibrary has failed with that error; it was the only fetch, nothing was
\* written to the cache and no dlopen was made.
C9_FetchFailureIsFinal ==
  (\E i \in DOMAIN fetches : fetches[i] # "ok") =>
    /\ Len(fetches) = 1
    /\ lpc = "failed"
    /\ err = (IF fetches[1] = "reject" THEN "fetch rejected" ELSE "Failed to fetch")
    /\ cacheWrites = 0 /\ cacheFile = cacheBefore
    /\ binds = << >>

\* C9 witness: the fetch is answered with a non-OK status while a stale cache
\* file sits at the cache path.
C9_Witness ==
  /\ fetches = <<"status">> /\ lpc = "failed" /\ err = "Failed to fetch"
  /\ cacheFile # NoFile /\ cmps # << >>

\* C10: however many handle operations are started before acquisition has
\* finished, loadLibrary is called once: at most one fetch, one cache write and
\* one V2-then-V1 dlopen sequence on one path, and every operation that has
\* resumed received the one outcome, the bound library or the error.
C10_SingleAcquisition ==
  /\ loads <= 1
  /\ (\E c \in Callers : cpc[c] \in {"await", "gotLib", "threw"}) => (loads = 1 /\ libP = "promise")
  /\ Len(fetches) <= 1 /\ cacheWrites <= 1 /\ cacheReads <= 1
  /\ Len(binds) <= 2
  /\ \A i \in DOMAIN binds :
       binds[i] = [path |-> libPath, symbols |-> IF i = 1 THEN "V2" ELSE "V1"]
  /\ \A c \in Callers :
       /\ cpc[c] = "gotLib" => (lpc = "done" /\ cres[c] = lib.path \o ":" \o lib.symbols)
       /\ cpc[c] = "threw" => (lpc = "failed" /\ cres[c] = err)

\* C10 witness: every caller has resumed with the library, all but the first
\* joined the pending promise, two of them run different operations, and the
\* one acquisition downloaded and cached the release.
C10_Witness ==
  /\ \A c \in Callers : cpc[c] = "gotLib"
  /\ Cardinality({c \in Callers : cfound[c] = "pending"}) = NumCallers - 1
  /\ \E c, d \in Callers : cop[c] # cop[d]
  /\ fetches = <<"ok">> /\ cacheWrites = 1 /\ loads = 1

\* Everything an acquisition sets or counts.
acquisitionVars ==
  <<loaderVars, loads, stats, cacheReads, lookups, cmps, fetches, cacheWrites, binds>>

\* The outcome of the one acquisition, as an awaiting operation receives it.
settledOutcome == IF lpc = "done" THEN lib.path \o ":" \o lib.symbols ELSE err

\* C11: once the first acquisition has completed, with the library or with an
\* error, nothing of it runs again: no platform/override/dev resolution, no cache
\* read, no fetch, no cache write and no dlopen, whatever happens to the override,
\* the dev paths, the cache file or the network afterwards; and every operation
\* called after completion receives that same outcome.
C11_OutcomeReplayed ==
  /\ [][(lpc = "done" \/ lpc = "failed") => (acquisitionVars' = acquisitionVars)]_vars
  /\ [](\A c \in Callers :
          (cfound[c] = "settled" /\ cpc[c] \in {"gotLib", "threw"}) =>
             /\ loads = 1
             /\ cres[c] = settledOutcome
             /\ cpc[c] = IF lpc = "done" THEN "gotLib" ELSE "threw")

\* C11 witness: the library was bound from the cache; afterwards the override
\* was set, and an operation called after that still received the cached library.
C11_Witness ==
  /\ lpc = "done" /\ lib.path = candidate
  /\ envOverride = OverridePath /\ envChanges > 0
  /\ \E c \in Callers : cfound[c] = "settled" /\ cpc[c] = "gotLib" /\ cres[c] = settledOutcome

\* C12: binding tries the Full symbol set first and the Legacy set only after
\* the Full bind failed, on the same path; when the Full bind succeeds Legacy is
\* never attempted; when both fail acquisition fails with the bind error; a
\* process never makes more than two bind attempts.
C12_FullThenLegacy ==
  /\ Len(binds) <= 2
  /\ Len(binds) >= 1 => binds[1].symbols = "V2"
  /\ Len(binds) = 2 =>
       /\ binds[2] = [path |-> binds[1].path, symbols |-> "V1"]
       /\ exports # "full"
  /\ exports = "full" => (binds = <<[path |-> libPath, symbols |-> "V2"]>> /\ lib.symbols = "V2")
  /\ (lpc = "done" /\ lib.symbols = "V1") => (Len(binds) = 2 /\ exports = "legacy")
  /\ (Len(binds) = 2 /\ exports = "none" /\ lpc # "dlopenV1") =>
       (lpc = "failed" /\ err = "dlopen failed" /\ lib = NoLib)

\* C12 witness: the Full bind failed on a library that exports only the Legacy
\* symbols, and the second attempt bound it.
C12_Witness ==
  /\ lpc = "done" /\ lib.symbols = "V1" /\ exports = "legacy"
  /\ binds = <<[path |-> libPath, symbols |-> "V2"], [path |-> libPath, symbols |-> "V1"]>>

\* Caller c's operation op has returned or thrown.
returned(c, op) == nops > 0 /\ cop[c] = op /\ cpc[c] = "idle" /\ cret[c].kind # "pending"

\* Caller c's operation op got the library from getLib and ran to its end.
ranBody(c, op) == returned(c, op) /\ lpc = "done"

\* C13: when the bound interface is Full, openWriteWithSize makes the one
\* native call mmap_open_write_with_size with the requested size, and neither
\* Deno.truncate nor mmap_open_write.
C13_FullUsesNativeResize ==
  \A c \in Callers :
    (ranBody(c, "openWriteWithSize") /\ lib.symbols = "V2") =>
       calls = <<NativeCall("mmap_open_write_with_size", carg[c].path, NullPtr, 0, carg[c].size)>>

\* C14: when the bound interface is Legacy, an openWriteWithSize that succeeds
\* has first resized the file through Deno.truncate and then mapped it with
\* mmap_open_write, and the handle's length is at least the requested size.
C14_LegacyResizesThenMaps ==
  \A c \in Callers :
    /\ (cpc[c] = "truncated" /\ lib.symbols = "V1") =>
          calls = <<NativeCall("Deno.truncate", carg[c].path, NullPtr, 0, carg[c].size)>>
    /\ (ranBody(c, "openWriteWithSize") /\ lib.symbols = "V1" /\ cret[c].kind = "handle") =>
          /\ calls = <<NativeCall("Deno.truncate", carg[c].path, NullPtr, 0, carg[c].size),
                       NativeCall("mmap_open_write", carg[c].path, NullPtr, 0, 0)>>
          /\ cret[c].h.len >= carg[c].size
          /\ fileLen(files, carg[c].path) >= carg[c].size

\* C14 witness: under Legacy a file shorter than the requested size was grown
\* and mapped, and the handle came back.
C14_Witness ==
  \E c \in Callers :
    /\ ranBody(c, "openWriteWithSize") /\ lib.symbols = "V1" /\ cret[c].kind = "handle"
    /\ fileLen(filesAt, carg[c].path) < carg[c].size
    /\ cret[c].h.len = carg[c].size

\* C15: a successful openWriteWithSize(path, minSize) on an existing file has the
\* same effect under Full and Legacy: the file ends at least minSize bytes long,
\* a file that was already longer is not shrunk, and the handle's length is the
\* resulting file size, whichever interface is bound.
C15_SameEffectBothInterfaces ==
  \A c \in Callers :
    (ranBody(c, "openWriteWithSize") /\ cret[c].kind = "handle") =>
       /\ fileLen(files, carg[c].path) >= carg[c].size
       /\ fileLen(files, carg[c].path) >= fileLen(filesAt, carg[c].path)
       /\ cret[c].h.len = fileLen(files, carg[c].path)

\* The bytes a write or read asks for run past the handle's length.
beyond(c) == carg[c].offset + Len(carg[c].buf) > carg[c].h.len

\* C16: a write or read whose offset plus buffer length exceeds the handle's
\* length fails with the out-of-bounds error, and the native write/read
\* primitive is not invoked (no call is made, no file changes).
C16_OutOfBoundsRejected ==
  \A c \in Callers : \A op \in {"write", "read"} :
    (ranBody(c, op) /\ beyond(c)) =>
       /\ cret[c].kind = "error"
       /\ cret[c].msg = op \o " beyond mapping length"
       /\ calls = << >>
       /\ files = filesAt

\* C16 witness: a write asking for exactly one byte more than the mapping holds
\* was rejected.
C16_Witness ==
  \E c \in Callers :
    /\ ranBody(c, "write") /\ cret[c].kind = "error"
    /\ carg[c].offset >= 0 /\ carg[c].offset + Len(carg[c].buf) = carg[c].h.len + 1

\* C17: every native mmap_write / mmap_read call the protocol layer issues has
\* offset >= 0 and offset + length <= the mapped length, whatever offset the
\* program passed, negative ones included.
C17_NativeCallsInRange ==
  \A i \in DOMAIN calls :
    calls[i].fn \in {"mmap_write", "mmap_read"} =>
       /\ calls[i].off >= 0
       /\ calls[i].off + calls[i].len <= regions[calls[i].ptr].len

\* C18: when the native primitive returns a count other than the requested
\* length, write/read fails with a partial-transfer error; a write/read that
\* succeeds returns exactly the buffer length; the native call is made once.
\* (Stated for the calls with a non-negative offset, which are in range.)
C18_PartialTransferIsError ==
  \A c \in Callers : \A op \in {"write", "read"} :
    (ranBody(c, op) /\ calls # << >> /\ carg[c].offset >= 0) =>
       /\ Len(calls) = 1
       /\ cret[c].native # Len(carg[c].buf) => cret[c].kind = "error"
       /\ cret[c].kind = "count" => cret[c].n = Len(carg[c].buf)

\* C19: flush makes exactly one native mmap_flush call, with the given offset
\* and, when the length is omitted, the length h.len - offset (an explicit
\* length, zero included, is passed unchanged); it fails exactly when the
\* native status is non-zero.
C19_FlushOneCall ==
  \A c \in Callers :
    ranBody(c, "flush") =>
       /\ calls = <<NativeCall("mmap_flush", None, carg[c].h.ptr, carg[c].offset,
                               IF carg[c].length = Omitted
                               THEN carg[c].h.len - carg[c].offset
                               ELSE carg[c].length)>>
       /\ cret[c].kind = "error" <=> cret[c].native # 0
       /\ cret[c].kind = "error" => cret[c].msg = "mmap_flush failed"
       /\ cret[c].kind # "error" => cret[c].kind = "void"

\* C19 witness: a flush from a positive offset with the length omitted on a
\* mapping longer than the offset succeeded.
C19_Witness ==
  \E c \in Callers :
    /\ ranBody(c, "flush") /\ cret[c].kind = "void"
    /\ carg[c].length = Omitted /\ carg[c].offset > 0 /\ carg[c].h.len > carg[c].offset

\* C20: open and openWrite fail with their open error exactly when the native
\* open returns the null reference; otherwise they return a handle whose ptr is
\* the returned reference, whose len is the length the native call reported
\* (the file's current size) and whose path is the path passed in.
C20_OpenHandle ==
  \A c \in Callers : \A op \in {"open", "openWrite"} :
    ranBody(c, op) =>
       LET fn == IF op = "open" THEN "mmap_open" ELSE "mmap_open_write"
           p == cret[c].native IN
       /\ calls = <<NativeCall(fn, carg[c].path, NullPtr, 0, 0)>>
       /\ cret[c].kind = "error" <=> p = NullPtr
       /\ cret[c].kind = "error" => cret[c].msg = fn \o " failed: " \o carg[c].path
       /\ cret[c].kind # "error" =>
            /\ cret[c].kind = "handle"
            /\ cret[c].h = [ptr |-> p, len |-> regions[p].len, path |-> carg[c].path]
            /\ cret[c].h.len = fileLen(filesAt, carg[c].path)
            /\ cret[c].h \in handles

\* C20 witness: open of an existing non-empty file returned a handle.
C20_Witness ==
  \E c \in Callers :
    /\ ranBody(c, "open") /\ cret[c].kind = "handle"
    /\ cret[c].h.len > 0 /\ cret[c].h.path = "data.bin"

\* The documented naming convention, as a table of its own.
DocumentedTag == [o \in {"windows", "linux", "darwin"} |->
                    IF o = "windows" THEN "windows" ELSE IF o = "linux" THEN "linux" ELSE "macos"]
DocumentedExt == [o \in {"windows", "linux", "darwin"} |->
                    IF o = "windows" THEN "dll" ELSE IF o = "linux" THEN "so" ELSE "dylib"]

\* C22: on every supported (OS, arch) pair assetName(base) is
\* <base>-<osTag>-<arch>.<ext>, with osTag one of windows, linux, macos (darwin is
\* named macos) and ext fixed by the OS (dll, so, dylib); on every other OS or
\* architecture currentPlatform throws, the load fails with that error and no
\* name is produced: no path is resolved, nothing fetched, nothing bound.
C22_AssetNaming ==
  /\ (os \in DOMAIN DocumentedTag /\ arch \in {"x86_64", "aarch64"}) =>
       /\ currentPlatformError = None
       /\ \A base \in {"mmap_ffi", "other"} :
            assetName(base) = base \o "-" \o DocumentedTag[os] \o "-" \o arch \o "."
                                \o DocumentedExt[os]
  /\ (os \notin DOMAIN DocumentedTag \/ arch \notin {"x86_64", "aarch64"}) =>
       /\ currentPlatformError \in {"Unsupported OS", "Unsupported arch"}
       /\ lpc # "init" => (lpc = "failed" /\ err = currentPlatformError)
       /\ libPath = None /\ fetches = << >> /\ binds = << >> /\ stats = 0 /\ lookups = 0

\* C22 witness: on darwin/aarch64 the loader downloaded, cached and bound the
\* asset named with the macos tag and the dylib extension.
C22_Witness ==
  /\ os = "darwin" /\ arch = "aarch64"
  /\ lpc = "done" /\ fetches = <<"ok">>
  /\ lib.path = cacheDir \o "/mmap_ffi-macos-aarch64.dylib"

\* C25: a fetch of the release asset is issued only when no override is set, no
\* dev artifact exists, the manifest has an entry for the asset, and the cache
\* file is absent or fails digest verification.
C25_FetchOnlyWhenNeeded ==
  fetches # << >> =>
     /\ ~overrideSet
     /\ devPath = None
     /\ lookup(asset) # NoEntry
     /\ (cacheBefore = NoFile \/ ~matchesManifest(cacheBefore))

\* C23: flush never issues a native mmap_flush call whose offset is negative or
\* past the mapped length, whose length is negative, or whose offset + length
\* exceeds the mapped length.
C23_FlushInRange ==
  \A i \in DOMAIN calls :
    calls[i].fn = "mmap_flush" =>
       /\ calls[i].off >= 0
       /\ calls[i].off <= regions[calls[i].ptr].len
       /\ calls[i].len >= 0
       /\ calls[i].off + calls[i].len <= regions[calls[i].ptr].len

\* C26: when openWriteWithSize(path, minSize) fails, the backing file has the
\* size and contents it had before the call, under Full and under Legacy.
C26_FailedResizeLeavesFile ==
  \A c \in Callers :
    (ranBody(c, "openWriteWithSize") /\ cret[c].kind = "error") => files = filesAt

\* C27: in read and write the bounds check runs only after acquisition has
\* completed. An out-of-range read or write that is the first operation of the
\* process starts the one acquisition; it has thrown nothing while acquisition
\* runs; when acquisition fails it throws the acquisition error, not the
\* out-of-bounds error; when acquisition succeeds it throws the out-of-bounds
\* error and no native call is made.
C27_BoundsCheckAfterAcquisition ==
  \A c \in Callers : \A op \in {"write", "read"} :
    (cop[c] = op /\ carg[c] # NoArgs /\ beyond(c)) =>
       /\ cpc[c] \in {"await", "gotLib", "threw"} => (loads = 1 /\ cret[c].kind = "pending")
       /\ lpc \notin {"done", "failed"} => cret[c].kind = "pending"
       /\ cret[c].kind # "pending" =>
            /\ cret[c].kind = "error"
            /\ loads = 1
            /\ calls = << >>
            /\ lpc = "failed" => cret[c].msg = err
            /\ lpc = "done" => cret[c].msg = op \o " beyond mapping length"

\* C27 witness: the first operation of the process was an out-of-range write;
\* the library was downloaded, cached and bound for it, and then it threw the
\* out-of-bounds error.
C27_Witness ==
  \E c \in Callers :
    /\ cop[c] = "write" /\ beyond(c) /\ cfound[c] = "null"
    /\ fetches = <<"ok">> /\ cacheWrites = 1 /\ lpc = "done"
    /\ cret[c].kind = "error" /\ cret[c].msg = "write beyond mapping length"

\* The program ran the whole write-then-read cycle and its read has returned.
cycleDone(c) ==
  /\ Len(script) = 6 /\ nops = 6
  /\ ranBody(c, "read") /\ cret[c].kind = "count"

\* C21: round trip. For a write-mapped handle, an in-range offset and N bytes
\* with offset + N <= mapped length (N from 0 to the file length): after write
\* (which transferred N), flush, close, open read-only and a read of N bytes at
\* the same offset (which transferred N), the bytes read are exactly the bytes
\* written and the file on disk holds them at that offset.
C21_RoundTrip ==
  \A c \in Callers :
    (/\ cycleDone(c)
     /\ written.offset >= 0
     /\ written.offset + Len(written.buf) <= written.h.len
     /\ written.n = Len(written.buf)
     /\ carg[c].offset = written.offset
     /\ Len(carg[c].buf) = Len(written.buf)
     /\ cret[c].n = Len(written.buf)) =>
       /\ cret[c].data = written.buf
       /\ SubSeq(files["data.bin"], written.offset + 1, written.offset + Len(written.buf))
            = written.buf
       /\ ~ub

\* C21 witness: a non-zero byte written at a positive offset of a file opened
\* with openWriteWithSize came back from the read after flush, close and reopen.
C21_Witness ==
  \E c \in Callers :
    /\ cycleDone(c) /\ script[1] = "openWriteWithSize"
    /\ written.offset > 0 /\ written.n = Len(written.buf)
    /\ \E i \in DOMAIN written.buf : written.buf[i] = 1
    /\ carg[c].offset = written.offset /\ cret[c].n = Len(written.buf)
    /\ cret[c].data = written.buf

\* The program opened a handle, closed it, and its third operation, on that
\* handle, has returned.
usedAfterClose(c, op) ==
  /\ Len(script) = 3 /\ nops = 3 /\ script[3] = op
  /\ ranBody(c, op)

\* C24: the protocol layer keeps no liveness state for handles. Every close(h)
\* issues one native mmap_close(h.ptr, h.len) and leaves the handle value as it
\* was; after close(h), a second close(h), or a read, write or flush on h that
\* passes the bounds check, still issues its native call with the released
\* region reference and is not rejected locally.
C24_NoLivenessState ==
  \A c \in Callers :
    /\ ranBody(c, "close") =>
         /\ calls = <<NativeCall("mmap_close", None, carg[c].h.ptr, 0, carg[c].h.len)>>
         /\ cret[c].kind = "void"
         /\ carg[c].h \in handles
    /\ \A op \in {"close", "write", "read", "flush"} :
         (usedAfterClose(c, op) /\ (op \in {"write", "read"} => ~beyond(c))) =>
            /\ ~regions[carg[c].h.ptr].live
            /\ Len(calls) = 1
            /\ calls[1].fn = "mmap_" \o op /\ calls[1].ptr = carg[c].h.ptr
            /\ cret[c].kind = "error" => (op = "flush" /\ cret[c].native # 0)
            /\ carg[c].h \in handles

\* C24 witness: the same handle was closed twice and the second close made its
\* native call on the released region.
C24_Witness ==
  \E c \in Callers :
    /\ usedAfterClose(c, "close")
    /\ calls = <<NativeCall("mmap_close", None, carg[c].h.ptr, 0, carg[c].h.len)>>
    /\ ub

\* C28: the generator and the loader agree on asset names. Every name the
\* loader can request, assetName("mmap_ffi") on a supported platform, passes the
\* generator's default file-name filter; so the manifest generated with default
\* options from a directory holding such assets has an entry for each of them,
\* and its keys are written in sorted order.
C28_GeneratorCoversLoaderAssets ==
  gpc = "done" =>
     /\ \A n \in SupportedAssets \cap gdir :
          nameRegexTest(n) /\ \E i \in DOMAIN gjson : gjson[i].k = n
     /\ \A i, j \in DOMAIN gjson : i < j => rank(gjson[i].k) < rank(gjson[j].k)

====
